---------------------------- MODULE Spec2Model ----------------------------
(***************************************************************************)
(* A model of assets/js/filter-nav.js: the collapsible sources panel, the  *)
(* debounced source search filter, the back-to-top control and the active  *)
(* link marking.  Strings that the code inspects character by character    *)
(* (the search value, button texts, hrefs, paths) are sequences of         *)
(* one-character strings; texts the code only assigns are TLA+ strings.    *)
(***************************************************************************)
EXTENDS Integers, Sequences, FiniteSets, TLC

(***************************************************************************)
(* Bounds of the model.                                                    *)
(***************************************************************************)
\* longest value typed into the search input
MaxLen == 2
\* most source buttons inside the .all-sources container
MaxItems == 2
\* milliseconds that pass in one Tick step
TickMs == 100
\* most focus timers pending at once
MaxFocusTimers == 2
\* most navigation links on the page
MaxLinks == 2

\* the longest text escapeHtml is called on by itself
MaxEscLen == 3

(***************************************************************************)
(* Program constants.                                                      *)
(***************************************************************************)
\* setTimeout(originalFilterSources, 150)
FilterDelay == 150
\* setTimeout(() => searchInput.focus(), 300)
FocusDelay == 300
\* if (scrolled > 300)
ShowThreshold == 300

(***************************************************************************)
(* Strings.                                                                *)
(***************************************************************************)
SeqsUpTo(S, n) == UNION {[1..k -> S] : k \in 0..n}

\* characters of a typed search value: an upper-case letter, white space
\* and a character that is significant in HTML
Alphabet == {"A", " ", "<"}

InputValues == SeqsUpTo(Alphabet, MaxLen)

Min(S) == CHOOSE m \in S : \A n \in S : m <= n
Max(S) == CHOOSE m \in S : \A n \in S : n <= m

\* String.prototype.toLowerCase, one character ("A" is the upper-case letter
\* of the typed values and of the button texts)
LowerChar(c) == IF c = "A" THEN "a" ELSE c

\* String.prototype.toLowerCase
toLowerCase(s) == [i \in 1..Len(s) |-> LowerChar(s[i])]

IsWhiteSpace(c) == c = " "

\* String.prototype.trim: white space removed from both ends only
trim(s) ==
    LET keep == {i \in 1..Len(s) : ~IsWhiteSpace(s[i])}
    IN  IF keep = {} THEN <<>> ELSE SubSeq(s, Min(keep), Max(keep))

\* String.prototype.includes: q occurs in s as a contiguous run
includes(s, q) ==
    \E i \in 1..(Len(s) - Len(q) + 1) : SubSeq(s, i, i + Len(q) - 1) = q

\* the replacement escapeHtml's map gives one character
\* a replacement table without the apostrophe
EscapeCharNoApostrophe(c) ==
    CASE c = "&" -> <<"&", "a", "m", "p", ";">>
      [] c = "<" -> <<"&", "l", "t", ";">>
      [] c = ">" -> <<"&", "g", "t", ";">>
      [] c = "\"" -> <<"&", "q", "u", "o", "t", ";">>
      [] OTHER -> <<c>>

EscapeChar(c) ==
    CASE c = "&" -> <<"&", "a", "m", "p", ";">>
      [] c = "<" -> <<"&", "l", "t", ";">>
      [] c = ">" -> <<"&", "g", "t", ";">>
      [] c = "\"" -> <<"&", "q", "u", "o", "t", ";">>
      [] c = "'" -> <<"&", "#", "0", "3", "9", ";">>
      [] OTHER -> <<c>>

RECURSIVE escapeHtml(_)
\* text.replace(/[&<>"']/g, m => map[m])
escapeHtml(text) ==
    IF text = <<>> THEN <<>>
    ELSE EscapeChar(Head(text)) \o escapeHtml(Tail(text))

(***************************************************************************)
(* The host page.                                                          *)
(***************************************************************************)
\* the elements the script looks up, each present or absent in the markup
Elements == {"sourcesContent", "toggleButton", "toggleText", "toggleIcon",
             "searchInput", "allSources"}

\* a source button: its textContent and its optional data-source attribute
Button(text, hasDs, ds) == [text |-> text, hasDataSource |-> hasDs, dataSource |-> ds]

\* the source buttons a page may hold
ButtonPool ==
    << Button(<<"A", "b">>, FALSE, <<>>),
       Button(<<"b", " ", "a">>, TRUE, <<"A", "<">>) >>

\* the button lists of a page: no operation depends on the order of the
\* buttons, so one order stands for each multiset of buttons
ButtonLists ==
    {[i \in 1..Len(f) |-> ButtonPool[f[i]]] :
        f \in {g \in SeqsUpTo(1..Len(ButtonPool), MaxItems) :
                 \A i \in 1..(Len(g) - 1) : g[i] <= g[i + 1]}}

\* the label the markup gives the toggle before the script touches it
LabelPool == {"Show All Sources", "Hide All Sources", "Sources"}

\* an attribute that is not set
NoAttr == "null"
AttrValues == {NoAttr, "true", "false"}

\* a navigation link: its class and its optional href attribute
Link(cls, hasHref, href) == [cls |-> cls, hasHref |-> hasHref, href |-> href]

\* the href attributes a link may carry: paths, the root, a relative name,
\* a fragment, an absolute URL, a protocol-relative URL, the empty string
HrefPool ==
    { <<"/", "a">>, <<"/", "b">>, <<"/">>, <<"b">>, <<"#">>,
      <<"h", ":", "/", "/", "x", "/", "a">>,
      <<"h", ":", "/", "/", "x", "/", "b">>,
      <<"/", "/", "x", "/", "a">>, <<>> }

LinkPool ==
    {Link(c, TRUE, h) : c \in {"category-btn", "source-btn"}, h \in HrefPool}
        \cup {Link(c, FALSE, <<>>) : c \in {"category-btn", "source-btn"}}

LinkLists == SeqsUpTo(LinkPool, MaxLinks)

\* window.location.pathname
PathPool == { <<"/">>, <<"/", "a">>, <<"/", "b", "/", "a">> }

\* the vertical scroll offsets the user may scroll to
ScrollOffsets == {0, ShowThreshold - 1, ShowThreshold, ShowThreshold + 1}

VARIABLES
    domReady,       \* DOMContentLoaded has been dispatched
    present,        \* which of Elements the page holds
    activeElement,  \* document.activeElement: "body", "searchInput", "toggleButton"
    searchInPanel,  \* the search input is a descendant of #sources-content
    \* the sources panel
    ariaExpanded,   \* toggleButton's aria-expanded
    ariaHidden,     \* sourcesContent's aria-hidden
    toggleText,     \* textContent of .toggle-text
    contentDisplay, \* sourcesContent.style.display
    contentShow,    \* sourcesContent has class 'show'
    toggleHist,     \* what the last toggles found: <<aria-expanded, aria-hidden, label>> each
    \* the search filter
    inputValue,     \* searchInput.value
    sourceButtons,  \* the .source-btn elements inside .all-sources
    btnDisplay,     \* style.display of each source button
    btnAriaHidden,  \* aria-hidden of each source button
    noResultsMsgs,  \* the .no-results elements inside .all-sources, in document order
    liveRegions,    \* textContent of the elements with id search-results-live
    searchTimeout,  \* the timer id held by searchTimeout (0: undefined)
    timers,         \* pending setTimeout callbacks: [id, kind, elapsed]
    sinceInvoke,    \* ms since the exposed filter operation was last invoked (-1: never)
    burstPasses,    \* filter timer callbacks run since the current burst began
    superseded,     \* the current burst has cancelled a pending filter timer
    justPassed,     \* the last step was a filter pass that ran to its end
    lastWasEscape,  \* no edit and no invocation since Escape last cleared the input
    \* the back-to-top control
    backToTops,     \* number of .back-to-top buttons in the document
    backToTopShow,  \* the button has class 'show'
    ticking,        \* the scroll listener's guard flag
    rafQueue,       \* frame callbacks requested and not yet run
    pageYOffset,    \* window.pageYOffset
    scrolled,       \* the offset the last recomputation read (-1: none yet)
    frameRuns,      \* recomputations run by the last animation frame
    dropped,        \* a scroll event found the flag set since the last request
    wasShown,       \* some recomputation has shown the button
    \* the navigation links
    currentPath,    \* window.location.pathname
    links,          \* the .category-btn and .source-btn links: [cls, hasHref, href]
    linkActive,     \* each link has class 'active'
    linkCurrent,    \* each link's aria-current
    \* escapeHtml called on its own
    escText,        \* the text last passed to escapeHtml
    escResult       \* what escapeHtml returned for it

pageVars   == <<domReady, present, activeElement, searchInPanel>>
toggleVars == <<ariaExpanded, ariaHidden, toggleText, contentDisplay, contentShow, toggleHist>>
filterVars == <<inputValue, sourceButtons, btnDisplay, btnAriaHidden, noResultsMsgs,
                liveRegions, justPassed>>
timerVars  == <<searchTimeout, timers, sinceInvoke, burstPasses, superseded>>
scrollVars == <<backToTops, backToTopShow, ticking, rafQueue, pageYOffset, scrolled,
                frameRuns, dropped, wasShown>>
linkVars   == <<currentPath, links, linkActive, linkCurrent>>
escapeVars == <<escText, escResult>>

vars == <<pageVars, toggleVars, filterVars, timerVars, scrollVars, linkVars, escapeVars,
         lastWasEscape>>


(***************************************************************************)
(* Timers (setTimeout / clearTimeout).                                     *)
(***************************************************************************)
TimerIds(ts) == {t.id : t \in ts}

\* a timer id the browser has not handed out: one that no pending timer and
\* no handle the script still holds carries
FreshId(ts, held) == Min({n \in 1..(Cardinality(ts) + 2) : n \notin TimerIds(ts) \cup {held}})

\* clearTimeout(id) with nothing to cancel removed
clearTimeoutNoop(ts, id) == ts

\* clearTimeout(id): the pending timer with that id, if any, is cancelled
clearTimeout(ts, id) == {t \in ts : t.id # id}

\* setTimeout(callback, delay): a new pending timer
setTimeout(ts, id, kind) == ts \cup {[id |-> id, kind |-> kind, elapsed |-> 0]}

Delay(kind) == IF kind = "filter" THEN FilterDelay ELSE FocusDelay

FilterTimers == {t \in timers : t.kind = "filter"}
FocusTimers  == {t \in timers : t.kind = "focus"}

(***************************************************************************)
(* Initial states: the page as the markup gives it, the script evaluated   *)
(* (listeners registered, filterSources replaced by its debounced form),   *)
(* DOMContentLoaded not yet dispatched.                                    *)
(***************************************************************************)
HostPage(p, inPanel, btns, label, ae, ah, lnks, path) ==
    /\ domReady = FALSE
    /\ present = p
    /\ activeElement = "body"
    /\ searchInPanel = inPanel
    /\ escText = <<>>
    /\ escResult = <<>>
    /\ ariaExpanded = ae
    /\ ariaHidden = ah
    /\ toggleText = label
    /\ contentDisplay = ""
    /\ contentShow = FALSE
    /\ toggleHist = <<>>
    /\ inputValue = <<>>
    /\ sourceButtons = btns
    /\ btnDisplay = [i \in 1..Len(btns) |-> ""]
    /\ btnAriaHidden = [i \in 1..Len(btns) |-> NoAttr]
    /\ noResultsMsgs = <<>>
    /\ liveRegions = <<>>
    /\ justPassed = FALSE
    /\ lastWasEscape = FALSE
    /\ searchTimeout = 0
    /\ timers = {}
    /\ sinceInvoke = -1
    /\ burstPasses = 0
    /\ superseded = FALSE
    /\ backToTops = 0
    /\ backToTopShow = FALSE
    /\ ticking = FALSE
    /\ rafQueue = 0
    /\ pageYOffset = 0
    /\ scrolled = -1
    /\ frameRuns = 0
    /\ dropped = FALSE
    /\ wasShown = FALSE
    /\ currentPath = path
    /\ links = lnks
    /\ linkActive = [i \in 1..Len(lnks) |-> FALSE]
    /\ linkCurrent = [i \in 1..Len(lnks) |-> NoAttr]

\* a page with no panel, no search and no links
NoElements == [e \in Elements |-> FALSE]

\* pages that hold the search filter only
FilterPages ==
    {p \in [Elements -> BOOLEAN] :
        \A e \in Elements \ {"searchInput", "allSources"} : ~p[e]}

\* source buttons live inside .all-sources
InitFilter ==
    \E p \in FilterPages, btns \in ButtonLists :
        /\ ~p["allSources"] => btns = <<>>
        /\ HostPage(p, FALSE, btns, "Show All Sources", NoAttr, NoAttr, <<>>, <<"/">>)

(***************************************************************************)
(* filterSources (lines 72-117), kept as originalFilterSources.            *)
(***************************************************************************)
\* searchInput.value.toLowerCase().trim()
searchTerm(value) == trim(toLowerCase(value))

\* button.getAttribute('data-source') || ''
dataSource(button) == IF button.hasDataSource THEN button.dataSource ELSE <<>>

\* a match that looks at the button's text only
isVisibleTextOnly(button, term) == includes(toLowerCase(button.text), term)

\* buttonText.includes(searchTerm) || dataSource.toLowerCase().includes(searchTerm)
isVisible(button, term) ==
    \/ includes(toLowerCase(button.text), term)
    \/ includes(toLowerCase(dataSource(button)), term)

\* visibleCount after the forEach
visibleCount(term) ==
    Cardinality({i \in 1..Len(sourceButtons) : isVisible(sourceButtons[i], term)})

\* innerHTML of a new .no-results element
NoResultsHtml(term) ==
    <<"<i class=\"fas fa-search\"></i> No sources found matching \"">>
        \o escapeHtml(term) \o <<"\"">>

\* the message is shown on no match and never hidden again
noResultsNeverHidden(msgs, count, term) ==
    IF count = 0 /\ term # <<>>
    THEN IF msgs = <<>>
         THEN <<[display |-> "block", innerHTML |-> NoResultsHtml(term)]>>
         ELSE [msgs EXCEPT ![1].display = "block"]
    ELSE msgs

\* lines 101-113: allSources.querySelector('.no-results') is the first such
\* element; it is created when absent, shown on no match and hidden otherwise
noResultsAfter(msgs, count, term) ==
    IF count = 0 /\ term # <<>>
    THEN IF msgs = <<>>
         THEN <<[display |-> "block", innerHTML |-> NoResultsHtml(term)]>>
         ELSE [msgs EXCEPT ![1].display = "block"]
    ELSE IF msgs # <<>>
         THEN [msgs EXCEPT ![1].display = "none"]
         ELSE msgs

\* the announcement with the singular branch left out
announcementNoSingular(count, term) ==
    IF term = <<>> THEN "All sources displayed"
    ELSE IF count = 0 THEN "No sources found"
    ELSE ToString(count) \o " sources found"

\* announceSearchResults, lines 192-201
announcement(count, term) ==
    IF term = <<>> THEN "All sources displayed"
    ELSE IF count = 0 THEN "No sources found"
    ELSE IF count = 1 THEN "1 source found"
    ELSE ToString(count) \o " sources found"

\* announceSearchResults, lines 204-218: document.getElementById gives the
\* first element with the id; it is created when absent, then written
\* an announcement that creates its region every time
liveRegionsAppended(regions, text) == Append(regions, text)

liveRegionsAfter(regions, text) ==
    IF regions = <<>> THEN <<text>> ELSE [regions EXCEPT ![1] = text]

\* the body of originalFilterSources
FilterPass ==
    IF ~present["searchInput"] \/ ~present["allSources"]
    THEN /\ justPassed' = FALSE
         /\ UNCHANGED <<btnDisplay, btnAriaHidden, noResultsMsgs, liveRegions>>
    ELSE LET term  == searchTerm(inputValue)
             count == visibleCount(term)
         IN  /\ btnDisplay' = [i \in 1..Len(sourceButtons) |->
                    IF isVisible(sourceButtons[i], term) THEN "flex" ELSE "none"]
             /\ btnAriaHidden' = [i \in 1..Len(sourceButtons) |->
                    IF isVisible(sourceButtons[i], term) THEN NoAttr ELSE "true"]
             /\ noResultsMsgs' = noResultsAfter(noResultsMsgs, count, term)
             /\ liveRegions' = liveRegionsAfter(liveRegions, announcement(count, term))
             /\ justPassed' = TRUE

\* the filter timer fires: originalFilterSources runs
FilterTimerFire ==
    \E t \in FilterTimers :
        /\ t.elapsed >= FilterDelay
        /\ timers' = timers \ {t}
        /\ burstPasses' = burstPasses + 1
        /\ FilterPass
        /\ UNCHANGED <<pageVars, toggleVars, inputValue, sourceButtons, searchTimeout,
                       sinceInvoke, superseded, scrollVars, linkVars, escapeVars, lastWasEscape>>

\* the debounced filterSources, lines 260-263
Debounce ==
    LET id == FreshId(clearTimeout(timers, searchTimeout), 0)
        sameBurst == sinceInvoke # -1 /\ sinceInvoke < FilterDelay
    IN  /\ timers' = setTimeout(clearTimeout(timers, searchTimeout), id, "filter")
        /\ searchTimeout' = id
        /\ sinceInvoke' = 0
        /\ burstPasses' = IF sameBurst THEN burstPasses ELSE 0
        /\ superseded' = /\ \E t \in FilterTimers : t.id = searchTimeout
                         /\ sameBurst
        /\ justPassed' = FALSE

\* the host page calls window.filterSources()
FilterSourcesCall ==
    /\ Debounce
    /\ lastWasEscape' = FALSE
    /\ UNCHANGED <<pageVars, toggleVars, inputValue, sourceButtons, btnDisplay,
                   btnAriaHidden, noResultsMsgs, liveRegions, scrollVars, linkVars,
                   escapeVars>>

\* the user edits the search field: a character typed at the end, or the
\* last character deleted
TypeValue ==
    \E v \in InputValues :
        /\ present["searchInput"]
        /\ \/ v # <<>> /\ inputValue = SubSeq(v, 1, Len(v) - 1)
           \/ inputValue # <<>> /\ v = SubSeq(inputValue, 1, Len(inputValue) - 1)
        /\ inputValue' = v
        /\ justPassed' = FALSE
        /\ lastWasEscape' = FALSE
        /\ UNCHANGED <<pageVars, toggleVars, sourceButtons, btnDisplay, btnAriaHidden,
                       noResultsMsgs, liveRegions, timerVars, scrollVars, linkVars,
                       escapeVars>>

\* the user moves focus into or out of the search field
UserFocus ==
    \E e \in {"body", "searchInput", "toggleButton"} :
        /\ e # "body" => present[e]
        /\ e # activeElement
        /\ activeElement' = e
        /\ justPassed' = FALSE
        /\ UNCHANGED <<domReady, present, searchInPanel, toggleVars, inputValue,
                       sourceButtons, btnDisplay, btnAriaHidden, noResultsMsgs,
                       liveRegions, timerVars,
                       scrollVars, linkVars, escapeVars, lastWasEscape>>

\* an Escape handler that does not look at the focus
escapeAppliesUnfocused == present["searchInput"]

\* line 248: searchInput && document.activeElement === searchInput
escapeApplies == present["searchInput"] /\ activeElement = "searchInput"

\* keydown with key 'Escape', lines 246-252
KeydownEscape ==
    IF escapeApplies
    THEN /\ inputValue' = <<>>
         /\ Debounce
         /\ lastWasEscape' = TRUE
         /\ UNCHANGED <<pageVars, toggleVars, sourceButtons, btnDisplay, btnAriaHidden,
                        noResultsMsgs, liveRegions, scrollVars, linkVars, escapeVars>>
    ELSE /\ justPassed' = FALSE
         /\ UNCHANGED <<pageVars, toggleVars, inputValue, sourceButtons, btnDisplay,
                        btnAriaHidden, noResultsMsgs, liveRegions, timerVars, scrollVars,
                        linkVars, escapeVars, lastWasEscape>>

\* time passes: every pending timer, and the time since the last invocation,
\* ages by TickMs (no further than its delay: a due timer stays due)
Tick ==
    /\ timers' = {[t EXCEPT !.elapsed = IF t.elapsed + TickMs > Delay(t.kind)
                                        THEN Delay(t.kind) ELSE t.elapsed + TickMs]
                  : t \in timers}
    /\ sinceInvoke' = IF sinceInvoke = -1 THEN -1
                      ELSE IF sinceInvoke + TickMs > FilterDelay THEN FilterDelay
                      ELSE sinceInvoke + TickMs
    /\ justPassed' = FALSE
    /\ UNCHANGED <<pageVars, toggleVars, inputValue, sourceButtons, btnDisplay,
                   btnAriaHidden, noResultsMsgs, liveRegions, searchTimeout, burstPasses,
                   superseded, scrollVars, linkVars, escapeVars, lastWasEscape>>

NextFilter ==
    \/ TypeValue
    \/ UserFocus
    \/ FilterSourcesCall
    \/ KeydownEscape
    \/ Tick
    \/ FilterTimerFire

SpecFilter == InitFilter /\ [][NextFilter]_vars

\* a page with two source buttons, with or without the search input
InitFilterFair ==
    \E hasInput \in BOOLEAN :
        HostPage([e \in Elements |-> e = "allSources" \/ (e = "searchInput" /\ hasInput)],
                 FALSE, <<ButtonPool[2], ButtonPool[2]>>, "Show All Sources", NoAttr,
                 NoAttr, <<>>, <<"/">>)

\* time passes, and a timer that is due fires
SpecFilterFair ==
    InitFilterFair /\ [][NextFilter]_vars /\ WF_vars(Tick) /\ WF_vars(FilterTimerFire)

(***************************************************************************)
(* The sources panel: initializeFilterNav and toggleSourcesSection.        *)
(***************************************************************************)
\* an initialisation that sets aria-expanded only
ariaAfterInitExpandedOnly(ae, ah) == <<"false", ah>>

\* lines 26-27: <<aria-expanded, aria-hidden>> after initializeFilterNav
ariaAfterInit(ae, ah) == <<"false", "true">>

\* initializeFilterNav, lines 16-28
initializeFilterNav ==
    IF ~present["sourcesContent"] \/ ~present["toggleButton"]
    THEN UNCHANGED <<ariaExpanded, ariaHidden>>
    ELSE /\ ariaExpanded' = ariaAfterInit(ariaExpanded, ariaHidden)[1]
         /\ ariaHidden' = ariaAfterInit(ariaExpanded, ariaHidden)[2]

\* a collapse that leaves the label as it is
CollapsedKeepsLabel(label) ==
    [display |-> "none", show |-> FALSE, expanded |-> "false", hidden |-> "true",
     text |-> label]

\* lines 48-52: the panel and the toggle after a collapse
Collapsed(label) ==
    [display |-> "none", show |-> FALSE, expanded |-> "false", hidden |-> "true",
     text |-> "Show All Sources"]

\* lines 55-59: the panel and the toggle after an expand
Expanded(label) ==
    [display |-> "block", show |-> TRUE, expanded |-> "true", hidden |-> "false",
     text |-> "Hide All Sources"]

\* toggleSourcesSection, lines 33-67
\* a guard that forgets the icon span
toggleRequiredNoIcon == {"sourcesContent", "toggleButton", "toggleText"}

\* the elements toggleSourcesSection needs, lines 35-38 and the guard of line 40
toggleRequired == {"sourcesContent", "toggleButton", "toggleText", "toggleIcon"}

toggleSourcesSection ==
    IF \E e \in toggleRequired : ~present[e]
    THEN UNCHANGED <<toggleVars, timers>>
    ELSE LET isExpanded == ariaExpanded = "true"
             after == IF isExpanded THEN Collapsed(toggleText) ELSE Expanded(toggleText)
         IN  /\ contentDisplay' = after.display
             /\ contentShow' = after.show
             /\ ariaExpanded' = after.expanded
             /\ ariaHidden' = after.hidden
             /\ toggleText' = after.text
             /\ toggleHist' = (IF toggleHist = <<>> THEN <<>>
                                ELSE <<toggleHist[Len(toggleHist)]>>)
                                  \o <<<<ariaExpanded, ariaHidden, toggleText>>>>
             /\ IF ~isExpanded /\ present["searchInput"]
                THEN /\ Cardinality(FocusTimers) < MaxFocusTimers
                     /\ timers' = setTimeout(timers, FreshId(timers, searchTimeout), "focus")
                ELSE timers' = timers

\* the host page calls window.toggleSourcesSection(), as from onclick
ClickToggle ==
    /\ toggleSourcesSection
    /\ justPassed' = FALSE
    /\ UNCHANGED <<pageVars, inputValue, sourceButtons, btnDisplay, btnAriaHidden,
                   noResultsMsgs, liveRegions, searchTimeout, sinceInvoke, burstPasses,
                   superseded, scrollVars, linkVars, escapeVars, lastWasEscape>>

\* keydown with key 'Enter' or ' ' on the element of class toggle-sources,
\* lines 240-243
KeydownToggle ==
    /\ present["toggleButton"] /\ activeElement = "toggleButton"
    /\ toggleSourcesSection
    /\ justPassed' = FALSE
    /\ UNCHANGED <<pageVars, inputValue, sourceButtons, btnDisplay, btnAriaHidden,
                   noResultsMsgs, liveRegions, searchTimeout, sinceInvoke, burstPasses,
                   superseded, scrollVars, linkVars, escapeVars, lastWasEscape>>

\* the search input can take focus: an element inside a display:none
\* subtree is not rendered, and focus() on it does nothing
Focusable == ~(searchInPanel /\ contentDisplay = "none")

\* the focus timer of an expand fires: searchInput.focus(), line 64
FocusTimerFire ==
    \E t \in FocusTimers :
        /\ t.elapsed >= FocusDelay
        /\ timers' = timers \ {t}
        /\ activeElement' = IF Focusable THEN "searchInput" ELSE activeElement
        /\ justPassed' = FALSE
        /\ UNCHANGED <<domReady, present, searchInPanel, toggleVars, inputValue,
                       sourceButtons, btnDisplay, btnAriaHidden, noResultsMsgs, liveRegions,
                       searchTimeout, sinceInvoke, burstPasses, superseded, scrollVars,
                       linkVars, escapeVars, lastWasEscape>>

(***************************************************************************)
(* The back-to-top control: initializeBackToTop and scrollToTop.           *)
(***************************************************************************)
\* a listener that requests a frame for every scroll event
frameRequestsUnguarded(flag) == 1

\* lines 136-147: the frame callbacks one scroll event requests
frameRequests(flag) == IF ~flag THEN 1 ELSE 0

\* a comparison that shows the button at the threshold already
showAtThreshold(offset) == offset >= ShowThreshold

\* line 139: scrolled > 300
showFor(offset) == offset > ShowThreshold

\* the scroll listener, lines 135-148; it is registered by initializeBackToTop
ScrollListener ==
    IF ~domReady
    THEN UNCHANGED <<ticking, rafQueue, dropped>>
    ELSE /\ rafQueue' = rafQueue + frameRequests(ticking)
         /\ ticking' = TRUE
         /\ dropped' = (frameRequests(ticking) = 0)

\* the user scrolls the page: a scroll event at the new offset
ScrollEvent ==
    \E y \in ScrollOffsets :
        /\ y # pageYOffset
        /\ pageYOffset' = y
        /\ ScrollListener
        /\ justPassed' = FALSE
        /\ UNCHANGED <<pageVars, toggleVars, inputValue, sourceButtons, btnDisplay,
                       btnAriaHidden, noResultsMsgs, liveRegions, timerVars, backToTops,
                       backToTopShow, scrolled, frameRuns, wasShown, linkVars, escapeVars, lastWasEscape>>

\* a click on the back-to-top button: scrollToTop, lines 154-159
ScrollToTop ==
    /\ backToTops > 0
    /\ pageYOffset # 0
    /\ pageYOffset' = 0
    /\ ScrollListener
    /\ justPassed' = FALSE
    /\ UNCHANGED <<pageVars, toggleVars, inputValue, sourceButtons, btnDisplay,
                   btnAriaHidden, noResultsMsgs, liveRegions, timerVars, backToTops,
                   backToTopShow, scrolled, frameRuns, wasShown, linkVars, escapeVars, lastWasEscape>>

\* a callback that leaves the flag set
flagLeftSet(flag) == flag

\* line 143: ticking = false, the last statement of the frame callback
flagAfterFrame(flag) == FALSE

\* an animation frame: every requested callback runs (lines 138-144), each
\* reading the offset, setting the 'show' class and clearing the flag
AnimationFrame ==
    /\ frameRuns' = rafQueue
    /\ rafQueue' = 0
    /\ IF rafQueue > 0
       THEN /\ scrolled' = pageYOffset
            /\ backToTopShow' = showFor(pageYOffset)
            /\ wasShown' = (wasShown \/ showFor(pageYOffset))
            /\ ticking' = flagAfterFrame(ticking)
       ELSE UNCHANGED <<scrolled, backToTopShow, wasShown, ticking>>
    /\ justPassed' = FALSE
    /\ UNCHANGED <<pageVars, toggleVars, inputValue, sourceButtons, btnDisplay,
                   btnAriaHidden, noResultsMsgs, liveRegions, timerVars, backToTops,
                   pageYOffset, dropped, linkVars, escapeVars, lastWasEscape>>

\* a page-ready handler that gives up when the panel is missing
appendOnlyWithPanel(n) ==
    IF present["sourcesContent"] /\ present["toggleButton"] THEN n + 1 ELSE n

\* lines 124 and 131: createElement('button'), document.body.appendChild
appendBackToTop(n) == n + 1

\* initializeBackToTop, lines 122-149: the button is appended to the body and
\* the scroll listener registered, its flag false
initializeBackToTop ==
    /\ backToTops' = appendBackToTop(backToTops)
    /\ ticking' = FALSE

(***************************************************************************)
(* The active links: initializeActiveFilters.                              *)
(***************************************************************************)
\* href.replace(/^[^/]*/, ''): the leading characters other than '/' removed
stripLeading(href) ==
    LET slashes == {i \in 1..Len(href) : href[i] = "/"}
    IN  IF slashes = {} THEN <<>> ELSE SubSeq(href, Min(slashes), Len(href))

\* lines 171 and 181: href && currentPath.includes(href.replace(/^[^/]*/, ''))
isActive(link, path) ==
    /\ link.hasHref
    /\ link.href # <<>>
    /\ includes(path, stripLeading(link.href))

\* initializeActiveFilters, lines 164-186: the category links, then the
\* source links; a link that does not match is left as it is
initializeActiveFilters ==
    /\ linkActive' = [i \in 1..Len(links) |->
                         linkActive[i] \/ isActive(links[i], currentPath)]
    /\ linkCurrent' = [i \in 1..Len(links) |->
                          IF isActive(links[i], currentPath) THEN "page"
                          ELSE linkCurrent[i]]

(***************************************************************************)
(* Page ready, lines 7-11.                                                 *)
(***************************************************************************)
DOMContentLoaded ==
    /\ ~domReady
    /\ domReady' = TRUE
    /\ initializeFilterNav
    /\ initializeBackToTop
    /\ initializeActiveFilters
    /\ toggleHist' = <<>>
    /\ justPassed' = FALSE
    /\ UNCHANGED <<present, activeElement, toggleText, contentDisplay, contentShow,
                   inputValue, sourceButtons, btnDisplay, btnAriaHidden, noResultsMsgs,
                   liveRegions, timerVars, backToTopShow, rafQueue, pageYOffset,
                   scrolled, frameRuns, dropped, wasShown, currentPath, links,
                   searchInPanel, escapeVars, lastWasEscape>>

(***************************************************************************)
(* Specifications.  Spec is the whole page; the others are pages that hold *)
(* one part of it, with the operations that part can take.                 *)
(***************************************************************************)
\* pages that hold the panel, with or without the search input
TogglePages == {p \in [Elements -> BOOLEAN] : ~p["allSources"]}

InitToggle ==
    \E p \in TogglePages, inPanel \in BOOLEAN, label \in LabelPool,
       ae \in AttrValues, ah \in AttrValues :
        /\ inPanel => (p["sourcesContent"] /\ p["searchInput"])
        /\ HostPage(p, inPanel, <<>>, label, ae, ah, <<>>, <<"/">>)

NextToggle ==
    \/ DOMContentLoaded
    \/ UserFocus
    \/ ClickToggle
    \/ KeydownToggle
    \/ Tick
    \/ FocusTimerFire

SpecToggle == InitToggle /\ [][NextToggle]_vars

InitScroll == HostPage(NoElements, FALSE, <<>>, "Show All Sources", NoAttr, NoAttr, <<>>, <<"/">>)

NextScroll ==
    \/ DOMContentLoaded
    \/ ScrollEvent
    \/ ScrollToTop
    \/ AnimationFrame

SpecScroll == InitScroll /\ [][NextScroll]_vars

\* the browser runs a requested frame callback at its next repaint
SpecScrollFair == SpecScroll /\ WF_vars(AnimationFrame)

InitLinks ==
    \E lnks \in LinkLists, path \in PathPool :
        HostPage(NoElements, FALSE, <<>>, "Show All Sources", NoAttr, NoAttr, lnks, path)

NextLinks == DOMContentLoaded

SpecLinks == InitLinks /\ [][NextLinks]_vars

\* the texts escapeHtml is called on: every text over its five special
\* characters and a plain one, and a script tag followed by quotes
EscapeAlphabet == {"&", "<", ">", "\"", "'", "s"}

ScriptText == <<"<", "s", "c", "r", "i", "p", "t", ">", "\"", "'", "&">>

EscapeInputs == SeqsUpTo(EscapeAlphabet, MaxEscLen) \cup {ScriptText}

\* a caller passes a text to escapeHtml, lines 224-233
EscapeHtmlCall ==
    \E text \in EscapeInputs :
        /\ escText' = text
        /\ escResult' = escapeHtml(text)
        /\ UNCHANGED <<pageVars, toggleVars, filterVars, timerVars, scrollVars, linkVars,
                       lastWasEscape>>

InitEscape ==
    HostPage(NoElements, FALSE, <<>>, "Show All Sources", NoAttr, NoAttr, <<>>, <<"/">>)

NextEscape == EscapeHtmlCall

SpecEscape == InitEscape /\ [][NextEscape]_vars

\* the pages that receive injected elements: one with the search filter,
\* one with the panel
ElementPages ==
    { [e \in Elements |-> e \in {"searchInput", "allSources"}],
      [e \in Elements |-> e \in toggleRequired] }

InitElements ==
    \E p \in ElementPages :
        HostPage(p, FALSE, <<>>, "Show All Sources", NoAttr, NoAttr, <<>>, <<"/">>)

NextElements ==
    \/ DOMContentLoaded
    \/ ClickToggle
    \/ TypeValue
    \/ FilterSourcesCall
    \/ Tick
    \/ FilterTimerFire
    \/ ScrollEvent

SpecElements == InitElements /\ [][NextElements]_vars

\* pages with or without the panel and its toggle control
ReadyPages ==
    {p \in [Elements -> BOOLEAN] :
        /\ p["toggleText"] /\ p["toggleIcon"]
        /\ ~p["searchInput"] /\ ~p["allSources"]}

\* the <<aria-expanded, aria-hidden>> the markup may give: none, expanded,
\* collapsed
ReadyAttrs == {<<NoAttr, NoAttr>>, <<"true", "false">>, <<"false", "true">>}

InitReady ==
    \E p \in ReadyPages, attrs \in ReadyAttrs, lnks \in LinkLists, path \in PathPool :
        HostPage(p, FALSE, <<>>, "Show All Sources", attrs[1], attrs[2], lnks, path)

NextReady == DOMContentLoaded

SpecReady == InitReady /\ [][NextReady]_vars

\* pages that lack one of the elements the script looks up; the page without
\* the all-sources container has no panel either
AbsentPages ==
    {[e \in Elements |-> e # missing /\ (missing = "allSources" => e # "sourcesContent")] :
        missing \in Elements}

InitAbsent ==
    \E p \in AbsentPages :
        HostPage(p, FALSE, <<>>, "Show All Sources", NoAttr, NoAttr, <<>>, <<"/">>)

NextAbsent ==
    \/ DOMContentLoaded
    \/ UserFocus
    \/ ClickToggle
    \/ KeydownToggle
    \/ TypeValue
    \/ FilterSourcesCall
    \/ Tick
    \/ FilterTimerFire

SpecAbsent == InitAbsent /\ [][NextAbsent]_vars

Init ==
    \E p \in [Elements -> BOOLEAN], inPanel \in BOOLEAN, btns \in ButtonLists,
       label \in LabelPool, ae \in AttrValues, ah \in AttrValues, lnks \in LinkLists,
       path \in PathPool :
        /\ ~p["allSources"] => btns = <<>>
        /\ inPanel => (p["sourcesContent"] /\ p["searchInput"])
        /\ HostPage(p, inPanel, btns, label, ae, ah, lnks, path)

Next ==
    \/ DOMContentLoaded
    \/ UserFocus
    \/ ClickToggle
    \/ KeydownToggle
    \/ FocusTimerFire
    \/ TypeValue
    \/ FilterSourcesCall
    \/ KeydownEscape
    \/ Tick
    \/ FilterTimerFire
    \/ ScrollEvent
    \/ ScrollToTop
    \/ AnimationFrame

Spec == Init /\ [][Next]_vars

(***************************************************************************)
(* Properties of the search filter.                                        *)
(***************************************************************************)
\* q occurs in s: s is some a, then q, then some b
IsSubstringOf(q, s) ==
    \E i \in 0..Len(s) : \E j \in i..Len(s) : SubSeq(s, i + 1, j) = q

\* the query of a pass that reads the input now: lower-cased and trimmed
Query == trim(toLowerCase(inputValue))

\* button i matches the query: by its text or by its data-source attribute,
\* an absent attribute counting as the empty string
Matches(i) ==
    LET b == sourceButtons[i]
    IN  \/ IsSubstringOf(Query, toLowerCase(b.text))
        \/ IsSubstringOf(Query, toLowerCase(IF b.hasDataSource THEN b.dataSource ELSE <<>>))

MatchCount == Cardinality({i \in 1..Len(sourceButtons) : Matches(i)})

ButtonShown(i)  == btnDisplay[i] = "flex" /\ btnAriaHidden[i] = NoAttr
ButtonHidden(i) == btnDisplay[i] = "none" /\ btnAriaHidden[i] = "true"

\* C1: right after a filter pass every source button is visible (display
\* 'flex', no aria-hidden) if and only if the lower-cased, trimmed query is a
\* substring of its lower-cased text or data-source, and hidden (display
\* 'none', aria-hidden 'true') otherwise; an empty query shows every button.
C1_VisibleIffMatch ==
    justPassed =>
        /\ \A i \in 1..Len(sourceButtons) :
               IF Matches(i) THEN ButtonShown(i) ELSE ButtonHidden(i)
        /\ Query = <<>> => \A i \in 1..Len(sourceButtons) : ButtonShown(i)

\* a pass whose query was changed by the normalisation shows one button, by
\* its data-source alone, and hides another
C1_Witness ==
    /\ justPassed
    /\ Query # <<>> /\ Query # inputValue
    /\ \E i, j \in 1..Len(sourceButtons) :
           /\ ButtonShown(i) /\ ButtonHidden(j)
           /\ ~IsSubstringOf(Query, toLowerCase(sourceButtons[i].text))

\* C2: at most one filter timer is pending and it is the one of the last
\* invocation; within a burst (each invocation less than 150ms after the
\* previous one) no pass runs before the last invocation and at most one
\* after it, the pending timer standing for the pass still to come; a pass
\* shows the buttons that match the input's value at the time it runs.
C2_BurstRunsOnePass ==
    /\ Cardinality(FilterTimers) <= 1
    /\ \A t \in FilterTimers : t.id = searchTimeout
    /\ burstPasses <= 1
    /\ sinceInvoke # -1 => (burstPasses = 0 <=> FilterTimers # {})
    /\ burstPasses = 1 => sinceInvoke >= FilterDelay
    /\ justPassed => \A i \in 1..Len(sourceButtons) : Matches(i) <=> btnDisplay[i] = "flex"

\* a burst of several invocations has ended in its one pass, over a page
\* whose buttons the final value splits
C2_Witness ==
    /\ justPassed /\ superseded /\ burstPasses = 1
    /\ \E i, j \in 1..Len(sourceButtons) : ButtonShown(i) /\ ButtonHidden(j)

NoResultsDisplayed == \E k \in 1..Len(noResultsMsgs) : noResultsMsgs[k].display = "block"

\* C3: right after a filter pass the 'no results' message is displayed if
\* and only if the query is not empty and no button matches; otherwise there
\* is no message or it is hidden.
C3_NoResultsIffNoMatch ==
    justPassed =>
        IF Query # <<>> /\ MatchCount = 0
        THEN NoResultsDisplayed
        ELSE \A k \in 1..Len(noResultsMsgs) : noResultsMsgs[k].display = "none"

\* a pass with a match, or an empty query, has hidden the message an earlier
\* pass without a match created
C3_Witness ==
    /\ justPassed
    /\ noResultsMsgs # <<>>
    /\ noResultsMsgs[1].display = "none"
    /\ Len(sourceButtons) > 0

\* C4: whenever a pass ends with the 'no results' message displayed, the
\* message holds the HTML-escaped query of that pass, created or reused; and
\* the container never holds more than one message.
C4_MessageHoldsQuery ==
    /\ Len(noResultsMsgs) <= 1
    /\ justPassed =>
           \A k \in 1..Len(noResultsMsgs) :
               noResultsMsgs[k].display = "block" =>
                   IsSubstringOf(escapeHtml(Query), noResultsMsgs[k].innerHTML)

\* C10: right after a filter pass the live region reads 'All sources
\* displayed' for an empty query, 'No sources found' for no match, '1 source
\* found' for one match and '<N> sources found' for N > 1.
C10_Announcement ==
    justPassed =>
        /\ liveRegions # <<>>
        /\ liveRegions[1] =
               IF Query = <<>> THEN "All sources displayed"
               ELSE IF MatchCount = 0 THEN "No sources found"
               ELSE IF MatchCount = 1 THEN "1 source found"
               ELSE ToString(MatchCount) \o " sources found"

\* a pass has announced exactly one match, over a page with several buttons
C10_Witness ==
    /\ justPassed
    /\ Len(sourceButtons) > 1
    /\ liveRegions = <<"1 source found">>

\* the buttons are split as the input's value splits them
PartitionCurrent ==
    \A i \in 1..Len(sourceButtons) : IF Matches(i) THEN ButtonShown(i) ELSE ButtonHidden(i)

\* the 'no results' message is displayed, naming the input's value, when
\* that value is not empty and matches nothing; else none is displayed
MessageCurrent ==
    IF Query # <<>> /\ MatchCount = 0
    THEN /\ NoResultsDisplayed
         /\ \A k \in 1..Len(noResultsMsgs) :
                IsSubstringOf(escapeHtml(Query), noResultsMsgs[k].innerHTML)
    ELSE ~NoResultsDisplayed

\* the live region announces the result for the input's value
AnnouncementCurrent ==
    /\ liveRegions # <<>>
    /\ liveRegions[Len(liveRegions)] =
           IF Query = <<>> THEN "All sources displayed"
           ELSE IF MatchCount = 0 THEN "No sources found"
           ELSE IF MatchCount = 1 THEN "1 source found"
           ELSE ToString(MatchCount) \o " sources found"

FilterInvoked == FilterSourcesCall \/ (KeydownEscape /\ activeElement = "searchInput")

\* C16: once the filter operation is no longer invoked, the pending timer
\* fires and none stays pending; the pass it runs leaves the visibility of
\* the buttons, the 'no results' message and the announcement as the value
\* of the search input asks, and they stay so while that value is not
\* edited: nothing of an earlier value remains.
C16_FinalValueFiltered ==
    /\ (<>[][~FilterInvoked]_vars) => <>[](FilterTimers = {})
    /\ [](justPassed => (PartitionCurrent /\ MessageCurrent /\ AnnouncementCurrent))
    /\ [][ (PartitionCurrent /\ MessageCurrent /\ AnnouncementCurrent
               /\ inputValue' = inputValue)
            => (PartitionCurrent /\ MessageCurrent /\ AnnouncementCurrent)' ]_vars

(***************************************************************************)
(* Properties of the sources panel.                                        *)
(***************************************************************************)
\* the label toggleSourcesSection writes for a state of the panel
LabelOf(expanded) == IF expanded = "true" THEN "Hide All Sources" ELSE "Show All Sources"

\* two toggle activations have run one after the other since page ready
ToggledTwice == domReady /\ Len(toggleHist) = 2

\* C5 as stated: two consecutive toggle activations after initialisation
\* return aria-expanded, aria-hidden and the label to what they were before
\* the first, whatever label the markup supplied.
C5_RoundTripAnyLabel ==
    ToggledTwice => <<ariaExpanded, ariaHidden, toggleText>> = toggleHist[1]

\* C5 amended: two consecutive toggle activations after initialisation return
\* aria-expanded and aria-hidden to what they were before the first; the
\* label returns to what it was exactly when it was the text the toggle
\* writes for that state of the panel.
C5_RoundTrip ==
    ToggledTwice =>
        /\ ariaExpanded = toggleHist[1][1]
        /\ ariaHidden = toggleHist[1][2]
        /\ toggleText = toggleHist[1][3] <=> toggleHist[1][3] = LabelOf(toggleHist[1][1])

\* an expanded panel has been collapsed and expanded again, and the label is
\* back to what it was
C5_Witness ==
    /\ ToggledTwice
    /\ toggleHist[1][1] = "true"
    /\ toggleText = toggleHist[1][3]

\* C6: after initialisation of a page that holds the toggle and the panel,
\* and after any toggle activations, aria-expanded is 'true' exactly when
\* aria-hidden is 'false', and 'false' exactly when it is 'true'.
C6_AriaNegations ==
    (domReady /\ present["toggleButton"] /\ present["sourcesContent"]) =>
        \/ ariaExpanded = "true" /\ ariaHidden = "false"
        \/ ariaExpanded = "false" /\ ariaHidden = "true"

\* a toggle activation after initialisation has expanded the panel
C6_Witness ==
    /\ domReady
    /\ toggleHist # <<>>
    /\ ariaExpanded = "true" /\ ariaHidden = "false"

(***************************************************************************)
(* Properties of the back-to-top control.                                  *)
(***************************************************************************)
\* C7: after a scroll recomputation the button has the 'show' class if and
\* only if the offset the recomputation read is greater than 300: not at 299
\* or 300, at 301, and not again at 0.
C7_ShowIffAboveThreshold ==
    scrolled # -1 =>
        /\ backToTopShow <=> scrolled > 300
        /\ scrolled \in {0, 299, 300} => ~backToTopShow
        /\ scrolled = 301 => backToTopShow

\* the button was shown, and a recomputation at offset 0 has hidden it
C7_Witness == wasShown /\ scrolled = 0 /\ ~backToTopShow

\* C8: at most one frame callback is pending, one animation frame runs at
\* most one recomputation, and the flag is set exactly while a callback is
\* pending: an event that finds it set requests nothing and only the
\* recomputation clears it.
C8_OneRecomputationPerFrame ==
    /\ rafQueue <= 1
    /\ frameRuns <= 1
    /\ ticking <=> rafQueue = 1

\* scroll events found the flag set, and the frame that followed ran one
\* recomputation
C8_Witness == dropped /\ frameRuns = 1 /\ ~ticking

\* the listener has handled a scroll event
ScrollHandled == scrolled # -1 \/ ticking

\* C15: when the scrolling stops, then from some moment on the button has
\* the 'show' class exactly when the final offset is greater than 300,
\* whether or not the last scroll events found a frame already requested;
\* this for every run in which the listener has handled a scroll event and
\* requested frames run.
C15_FinalOffsetShown ==
    (<>[][pageYOffset' = pageYOffset]_vars)
        => <>[](ScrollHandled => (backToTopShow <=> pageYOffset > 300))

\* the last scroll event, to an offset above 300, found a frame requested,
\* and the frame that ran since has shown the button
C15_Witness ==
    /\ dropped
    /\ ~ticking
    /\ pageYOffset = 301
    /\ scrolled = pageYOffset
    /\ backToTopShow

(***************************************************************************)
(* Properties of the active links.                                         *)
(***************************************************************************)
\* the first place at or after position from where s holds a '/' (0: none)
SlashFrom(s, from) ==
    LET at == {i \in from..Len(s) : s[i] = "/"}
    IN  IF at = {} THEN 0 ELSE Min(at)

\* the path of a target: the href without its scheme and host, for
\* 'scheme://host/path' and '//host/path'; any other href as it is
TargetPath(href) ==
    LET authority == {i \in 1..(Len(href) - 1) :
                         /\ href[i] = "/" /\ href[i + 1] = "/"
                         /\ i = 1 \/ href[i - 1] = ":"
                         /\ \A k \in 1..(i - 1) : href[k] # "/"}
    IN  IF authority = {} THEN href
        ELSE LET start == SlashFrom(href, Min(authority) + 2)
             IN  IF start = 0 THEN <<>> ELSE SubSeq(href, start, Len(href))

\* C9: after initialisation a link with an href is marked active (class
\* 'active', aria-current 'page') if and only if its target path, the href
\* without scheme and host, is a substring of the current path.
C9_ActiveIffTargetInPath ==
    domReady =>
        \A i \in 1..Len(links) :
            (links[i].hasHref /\ links[i].href # <<>>) =>
                ((linkActive[i] /\ linkCurrent[i] = "page")
                    <=> IsSubstringOf(TargetPath(links[i].href), currentPath))


(***************************************************************************)
(* Properties of operations on a page that lacks a required element.       *)
(***************************************************************************)
ToggleBlocked ==
    \/ ~present["sourcesContent"] \/ ~present["toggleButton"]
    \/ ~present["toggleText"] \/ ~present["toggleIcon"]

PassBlocked == ~present["searchInput"] \/ ~present["allSources"]

\* everything of the document the controller writes
Document ==
    <<ariaExpanded, ariaHidden, toggleText, contentDisplay, contentShow, btnDisplay,
      btnAriaHidden, noResultsMsgs, liveRegions, backToTops, backToTopShow,
      linkActive, linkCurrent, inputValue, activeElement>>

\* C11: a toggle activation on a page without the panel, the toggle control,
\* the label span or the icon span, and a filter pass on a page without the
\* search input or the all-sources container, leave every attribute,
\* visibility, label, 'no results' message and live region as they were,
\* create no element and schedule no focus timer.
C11_MissingElementNoEffect ==
    [][ /\ ((ClickToggle \/ KeydownToggle) /\ ToggleBlocked)
            => (UNCHANGED Document /\ timers' = timers)
        /\ (FilterTimerFire /\ PassBlocked)
            => (UNCHANGED Document /\ FocusTimers' = FocusTimers) ]_vars

\* a pass has run, with a value in the search input, on a page without the
\* all-sources container and without the panel
C11_Witness ==
    /\ PassBlocked
    /\ ToggleBlocked
    /\ present["searchInput"]
    /\ burstPasses >= 1
    /\ inputValue # <<>>
    /\ domReady


(***************************************************************************)
(* Properties of page-ready initialisation.                                *)
(***************************************************************************)
PanelAndToggleExist == present["sourcesContent"] /\ present["toggleButton"]

\* an href that is a path of its own: it begins with '/'
IsPathHref(link) == link.hasHref /\ link.href # <<>> /\ link.href[1] = "/"

\* C12: the page-ready step sets aria-expanded 'false' and aria-hidden 'true'
\* when the toggle control and the panel both exist and leaves both
\* attributes as they were when either is absent; in both cases it adds one
\* back-to-top control and marks the links: a link whose href is a path is
\* active with aria-current 'page' when that path occurs in the current path
\* and is left as it was when it does not.
C12_PageReady ==
    [][ DOMContentLoaded =>
          /\ IF PanelAndToggleExist
             THEN ariaExpanded' = "false" /\ ariaHidden' = "true"
             ELSE UNCHANGED <<ariaExpanded, ariaHidden>>
          /\ backToTops' = backToTops + 1
          /\ \A i \in 1..Len(links) :
                IsPathHref(links[i]) =>
                    IF IsSubstringOf(links[i].href, currentPath)
                    THEN linkActive'[i] /\ linkCurrent'[i] = "page"
                    ELSE linkActive'[i] = linkActive[i]
                         /\ linkCurrent'[i] = linkCurrent[i] ]_vars

\* initialised without a panel: the attributes the markup gave are still
\* there, the back-to-top control exists and a link is marked
C12_Witness ==
    /\ domReady
    /\ ~PanelAndToggleExist
    /\ ariaExpanded = "true"
    /\ ariaHidden = "false"
    /\ backToTops = 1
    /\ \E i \in 1..Len(links) : IsPathHref(links[i]) /\ linkActive[i]


(***************************************************************************)
(* Properties of escapeHtml.                                               *)
(***************************************************************************)
\* the entity that stands for a special character
Entity ==
    [c \in {"&", "<", ">", "\"", "'"} |->
        CASE c = "&" -> <<"&", "a", "m", "p", ";">>
          [] c = "<" -> <<"&", "l", "t", ";">>
          [] c = ">" -> <<"&", "g", "t", ";">>
          [] c = "\"" -> <<"&", "q", "u", "o", "t", ";">>
          [] c = "'" -> <<"&", "#", "0", "3", "9", ";">>]

\* the first n characters of text, each special one replaced by its entity
RECURSIVE ReplacedUpTo(_, _)
ReplacedUpTo(text, n) ==
    IF n = 0 THEN <<>>
    ELSE ReplacedUpTo(text, n - 1)
            \o (IF text[n] \in DOMAIN Entity THEN Entity[text[n]] ELSE <<text[n]>>)

ScriptEscaped ==
    <<"&", "l", "t", ";", "s", "c", "r", "i", "p", "t", "&", "g", "t", ";",
      "&", "q", "u", "o", "t", ";", "&", "#", "0", "3", "9", ";",
      "&", "a", "m", "p", ";">>

\* C13: escapeHtml returns its text with every & < > " ' replaced by
\* &amp; &lt; &gt; &quot; &#039; and every other character kept in place;
\* the script tag text becomes &lt;script&gt;&quot;&#039;&amp;; the result
\* holds no raw < > " or '.
C13_EscapeHtml ==
    /\ escResult = ReplacedUpTo(escText, Len(escText))
    /\ escText = ScriptText => escResult = ScriptEscaped
    /\ \A i \in 1..Len(escResult) : escResult[i] \notin {"<", ">", "\"", "'"}

\* the script tag text has been escaped
C13_Witness ==
    /\ escText = ScriptText
    /\ escResult = ScriptEscaped


(***************************************************************************)
(* Properties of the focus timer.                                          *)
(***************************************************************************)
\* the panel as a collapse leaves it
PanelCollapsed == ariaExpanded = "false" /\ contentDisplay = "none"

\* C14: no focus timer moves the focus into the search input while the panel
\* is collapsed: the controller focuses the search input only as the
\* completion of an expand, however toggles and focus timers interleave.
C14_NoFocusWhileCollapsed ==
    [][ (FocusTimerFire /\ activeElement # "searchInput"
                        /\ activeElement' = "searchInput")
            => ~PanelCollapsed ]_vars


(***************************************************************************)
(* Properties of the injected elements.                                    *)
(***************************************************************************)
\* C17: the document never holds more than one live region and, once the
\* page is initialised, holds exactly one back-to-top control (none
\* before); no step removes a live region or a back-to-top control,
\* whatever scroll, toggle and filter events occur.
C17_InjectedOnce ==
    /\ [](/\ Len(liveRegions) <= 1
          /\ backToTops = IF domReady THEN 1 ELSE 0)
    /\ [][ /\ Len(liveRegions') >= Len(liveRegions)
           /\ backToTops' >= backToTops ]_vars

\* on the initialised and scrolled page a pass for the empty value has
\* overwritten the text of the one live region, which an earlier pass that
\* found nothing had created
C17_Witness ==
    /\ domReady
    /\ backToTops = 1
    /\ ticking
    /\ justPassed
    /\ liveRegions = <<"All sources displayed">>
    /\ noResultsMsgs # <<>>


(***************************************************************************)
(* Properties of the Escape key.                                           *)
(***************************************************************************)
\* every button visible, no 'no results' message displayed, and the
\* announcement for an empty query
AllDisplayed ==
    /\ \A i \in 1..Len(sourceButtons) : ButtonShown(i)
    /\ ~NoResultsDisplayed
    /\ liveRegions = <<"All sources displayed">>

\* C18: Escape with the focus in the search input empties the input in that
\* step and leaves exactly one filter timer pending, a fresh one, without
\* running a pass; Escape with the input absent or not focused changes
\* neither the value nor any timer.  When the invocations of the filter
\* come to an end with an Escape that no edit follows, then from some
\* moment on every button is visible, the message hidden and 'All sources
\* displayed' announced; after such an Escape it is so whenever no timer
\* is pending.
C18_EscapeClears ==
    /\ [][ KeydownEscape =>
             IF present["searchInput"] /\ activeElement = "searchInput"
             THEN /\ inputValue' = <<>>
                  /\ FilterTimers' =
                         {[id |-> searchTimeout', kind |-> "filter", elapsed |-> 0]}
                  /\ UNCHANGED <<btnDisplay, btnAriaHidden, noResultsMsgs, liveRegions>>
             ELSE UNCHANGED <<inputValue, timers, searchTimeout>> ]_vars
    /\ (<>[][~FilterInvoked]_vars) => <>[](lastWasEscape => AllDisplayed)
    /\ [](lastWasEscape /\ FilterTimers = {} => AllDisplayed)

\* Escape has cleared a value that matched nothing, and the pass of its
\* timer has shown every button again and hidden the message
C18_Witness ==
    /\ lastWasEscape
    /\ justPassed
    /\ noResultsMsgs # <<>>
    /\ AllDisplayed

=============================================================================
